---------------------------- MODULE Spec2Model ----------------------------
(***************************************************************************)
(* A model of the contract-review engine of deyye/contractai:              *)
(*   - SimpleCache (base_agent.py): the bounded, expiring key/value store, *)
(*   - retry_on_error and BaseAgent.call_llm (base_agent.py),              *)
(*   - ContractCoordinator (coordinator.py): the four-stage workflow with  *)
(*     its thread-pool fan-out.                                            *)
(* Each part has its own specification over the shared variables:          *)
(*   SpecCache  sequential get / set / clear on one SimpleCache            *)
(*   SpecConc   two threads interleaving get and set on one SimpleCache    *)
(*   SpecLLM    call_llm under retry_on_error, with the cache              *)
(*   SpecFlow   one run of the coordinator's workflow graph                *)
(*   SpecMsg    BaseAgent.process_text_message around call_llm             *)
(*   SpecRisk   the integration agent's risk score, items and decision     *)
(*   SpecRun    repeated reviews of one text, remote calls counted         *)
(*   SpecCompress  BaseAgent._compress_text on short texts                 *)
(***************************************************************************)
EXTENDS Integers, Sequences, FiniteSets, TLC

(***************************************************************************)
(* Bounds of the model.                                                    *)
(***************************************************************************)
\* SimpleCache(ttl, max_size): the constructor's parameters, kept small
ttl == 2
max_size == 2
\* the clock (datetime.now()) runs from 0 to MaxTime
MaxTime == 2
\* at most MaxGets completed get operations are counted
MaxGets == 2

\* retry_on_error(max_retries, delay): max_retries ranges over 1..MaxRetries
MaxRetries == 3
\* at most MaxCalls calls of call_llm
MaxCalls == 2
\* the remote call takes 0..MaxLatency ticks of the clock
MaxLatency == 1

\* each thread starts at most MaxOps cache operations
MaxOps == 2

\* @retry_on_error(max_retries=3, delay=1.0) on call_llm: the base delay
delay == 1

Keys == {"k1", "k2", "k3"}
Values == {"a", "b"}
\* Python's None, as returned by SimpleCache.get on a miss
Absent == "<None>"

VARIABLES
    cache,      \* SimpleCache.cache: the dict, as its entries in insertion order
    hits,       \* SimpleCache.hits
    misses,     \* SimpleCache.misses
    now,        \* datetime.now()
    lastOp      \* the last cache operation: its arguments, its return value and
                \* what the store looked like when it was called

VARIABLES
    max_retries,    \* retry_on_error: the decorator's max_retries
    pc,             \* call_llm: "idle", "attempt" (in the retry loop), "returned", "raised"
    msg,            \* call_llm: user_message
    use_cache,      \* call_llm: use_cache
    attempt,        \* retry_on_error: the loop variable
    last_exception, \* retry_on_error: 0 for None, n for the exception of the n-th attempt
    result,         \* what the wrapper returned
    raised,         \* the exception the wrapper raised (0: none)
    calls,          \* calls of call_llm so far
    attempts,       \* this call: invocations of the wrapped function
    failures,       \* this call: invocations that raised
    remoteCalls,    \* this call: invocations of self.llm.invoke
    slept,          \* this call: total time.sleep
    firstCached     \* this call: what the cache held, unexpired, for the key when
                    \* the first attempt looked (Absent: nothing, or no lookup)

VARIABLES
    th,         \* per thread: where it is in get or set, and its local variables
    getsDone    \* get operations that have returned

VARIABLES
    agents,     \* ContractCoordinator.agents: name -> was the agent constructed
    stage,      \* where the run is: "idle", the graph node to run next, "join"
                \* (inside the parallel node, tasks submitted), "end", "responded"
    state,      \* the workflow state dict handed from node to node
    task,       \* per fanned-out analyzer: "none", "submitted", "running",
                \* "ok", "raised", "hung"
    taskValue,  \* per analyzer: what its invoke returned, or the message it raised
    pending,    \* futures as_completed has not yielded yet
    results,    \* the local dict `results` of the parallel node
    invoked,    \* the analyzers whose invoke has been called
    order,      \* the analyzers in the order their tasks completed
    docOutcome, \* what the document analyzer did: "none", "success",
                \* "status_error", "raise", "unavailable"
    response    \* what process_text_message returned

VARIABLES
    msgPc,      \* process_text_message: "idle", "calling" (inside call_llm), "done"
    msgLen,     \* process_text_message: len(user_text)
    msgFull,    \* process_text_message: full_text, the argument of call_llm
    msgReturn,  \* what process_text_message returned
    msgRaised,  \* did process_text_message let an exception out
    errorLogs   \* the callers of self.logger.error during the message, in order

VARIABLES
    reprLen     \* per analyzer: len(str(d)) of the dict d its invoke returns

VARIABLES
    runPc,      \* a review from entry to answer: "idle", "document", "analysis",
                \* "integrate", "done"
    runNo,      \* number of reviews started on this coordinator
    runText,    \* the text under review: its length and the keyword sections
                \* of the document agent it matches
    runCalls,   \* per agent: remote model calls made in the current review
    runSummary, \* context_summary: what the analyzers are given
    runReport,  \* the content of the coordinator's answer
    legalCache, \* the legal agent's SimpleCache: prompt -> cached response
    warm,       \* the review started with the legal agent's answer cached
    prevCalls,  \* remote calls of the previous review
    prevReport  \* answer of the previous review

VARIABLES
    cmpIn,      \* the last call of _compress_text: the text, as a sequence of
                \* characters, with the configured chunk_size and
                \* enable_text_compression
    cmpOut      \* what that call returned

VARIABLES
    riskPc,     \* IntegrationAgent: "idle", "analyzed" (the risks are collected),
                \* "assessed" (the report parts are built)
    content,    \* the text to integrate, as the set of the regexes that match it
    risks,      \* the dict analyze_content_risks returns: category -> descriptions
    analysis,   \* analyze_content_for_summary: risk_indicators, compliance_issues
    added,      \* risks appended to the dict after the content analysis
    report      \* overall_risk_score, high_risk_items, decision_recommendation

cacheVars == <<cache, hits, misses, now, lastOp>>
msgVars == <<msgPc, msgLen, msgFull, msgReturn, msgRaised, errorLogs>>
riskVars == <<riskPc, content, risks, analysis, added, report>>
compVars == <<cmpIn, cmpOut>>
runVars == <<runPc, runNo, runText, runCalls, runSummary, runReport, legalCache,
             warm, prevCalls, prevReport>>
\* the state of the parts added to the model after the first four
extVars == <<msgVars, reprLen, riskVars, runVars, compVars>>
concVars == <<th, getsDone>>
flowVars == <<agents, stage, state, task, taskValue, pending, results, invoked,
              order, docOutcome, response>>
llmVars == <<max_retries, pc, msg, use_cache, attempt, last_exception, result,
             raised, calls, attempts, failures, remoteCalls, slept, firstCached>>
vars == <<cacheVars, llmVars, concVars, flowVars, extVars>>

\* what each specification leaves alone
restCache == <<llmVars, concVars, flowVars, extVars>>
restLLM == <<lastOp, concVars, flowVars, extVars>>
restConc == <<lastOp, llmVars, flowVars, extVars>>
restFlow == <<cacheVars, llmVars, concVars, extVars>>
restMsg == <<concVars, flowVars, reprLen, riskVars, runVars, compVars>>

(***************************************************************************)
(* The dict of SimpleCache: key -> (value, expire_time).  A Python dict    *)
(* keeps insertion order, and min() over its items returns the first       *)
(* minimal one, so the store is a sequence of entries.                     *)
(***************************************************************************)
Entry(k, v, e) == [key |-> k, value |-> v, expire |-> e]

\* key in self.cache
HasKey(c, k) == \E i \in 1..Len(c) : c[i].key = k

\* self.cache[key]
Lookup(c, k) == c[CHOOSE i \in 1..Len(c) : c[i].key = k]

\* del self.cache[key]
Remove(c, k) == SelectSeq(c, LAMBDA e : e.key # k)

\* a store that keeps the old entry of a key it already holds
PutKeepOld(c, k, v, e) ==
    IF HasKey(c, k) THEN c ELSE Append(c, Entry(k, v, e))

\* self.cache[key] = (value, expire_time): an existing key keeps its place
Put(c, k, v, e) ==
    IF HasKey(c, k)
    THEN [i \in 1..Len(c) |-> IF c[i].key = k THEN Entry(k, v, e) ELSE c[i]]
    ELSE Append(c, Entry(k, v, e))

\* min(self.cache.items(), key=lambda x: x[1][1])[0]
OldestKey(c) ==
    c[CHOOSE i \in 1..Len(c) :
        /\ \A j \in 1..Len(c) : c[j].expire >= c[i].expire
        /\ \A j \in 1..(i - 1) : c[j].expire > c[i].expire].key

\* a lookup that still serves an entry at its expire time
GetHitAtExpiry(c, k, t) == HasKey(c, k) /\ t <= Lookup(c, k).expire

\* SimpleCache.get: does the lookup count as a hit
GetHit(c, k, t) == HasKey(c, k) /\ t < Lookup(c, k).expire

\* SimpleCache.get: the value returned
GetReturn(c, k, t) == IF GetHit(c, k, t) THEN Lookup(c, k).value ELSE Absent

\* SimpleCache.get: the dict afterwards (an expired entry is deleted)
GetCache(c, k, t) ==
    IF HasKey(c, k) /\ ~GetHit(c, k, t) THEN Remove(c, k) ELSE c

\* an eviction test that is off by one
SetEvictsLate(c) == Len(c) > max_size

\* SimpleCache.set: does the call evict
SetEvicts(c) == Len(c) >= max_size

\* SimpleCache.set: the dict afterwards
SetCache(c, k, v, t) ==
    LET c1 == IF SetEvicts(c) THEN Remove(c, OldestKey(c)) ELSE c
    IN  Put(c1, k, v, t + ttl)

\* SimpleCache.stats()["size"]
StatsSize(c) == Len(c)

\* The record of an operation: op(key, val) called at time t on store c returned
\* ret; after is, for a get that directly follows a set of the same key, how
\* full the store was at that set.
Op(o, k, v, r, c, t, a) ==
    [op |-> o, key |-> k, val |-> v, ret |-> r,
     had |-> HasKey(c, k), size |-> Len(c), at |-> t, after |-> a]

NoOp == Op("init", Absent, Absent, Absent, <<>>, 0, "none")

(***************************************************************************)
(* SpecCache: one caller at a time.                                        *)
(***************************************************************************)
\* SimpleCache.__init__
\* no message is being processed
InitNoMessage ==
    /\ msgPc = "idle"
    /\ msgLen = 0
    /\ msgFull = ""
    /\ msgReturn = Absent
    /\ msgRaised = FALSE
    /\ errorLogs = <<>>

\* _simple_integration: str(...)[:500]
PreviewLimit == 500
\* len(str(d)) of the dicts the analyzers return
ReprLens == {PreviewLimit, PreviewLimit + 1}

InitRepr == reprLen = [a \in {"document", "legal", "business"} |-> PreviewLimit + 1]

\* the dict of analyze_content_risks before any pattern is tried
NoRisks ==
    [legal_compliance_risks |-> <<>>, financial_risks |-> <<>>,
     operational_risks |-> <<>>, response_risks |-> <<>>]

\* the integration agent has been given nothing yet
InitNoRisk ==
    /\ riskPc = "idle"
    /\ content = {}
    /\ risks = NoRisks
    /\ analysis = [risk_indicators |-> <<>>, compliance_issues |-> <<>>]
    /\ added = 0
    /\ report = [overall_risk_score |-> 0, high_risk_items |-> <<>>,
                 decision_recommendation |-> ""]

\* what the document agent extracted: nothing, or one of two model outputs
Extractions == {"none", "e1", "e2"}
\* the agents a review invokes before the integration
RunAgents == {"document", "legal", "business"}

\* a coordinator that has reviewed nothing yet; every agent's cache is empty
InitNoReview ==
    /\ runPc = "idle"
    /\ runNo = 0
    /\ runText = [len |-> 0, sections |-> 0]
    /\ runCalls = [a \in RunAgents |-> 0]
    /\ runSummary = "none"
    /\ runReport = Absent
    /\ legalCache = [x \in Extractions |-> Absent]
    /\ warm = FALSE
    /\ prevCalls = 0
    /\ prevReport = Absent
    /\ cmpIn = [text |-> <<>>, chunk_size |-> 1, enabled |-> TRUE]
    /\ cmpOut = <<>>

InitExt == InitNoMessage /\ InitRepr /\ InitNoRisk /\ InitNoReview

InitStore ==
    /\ cache = <<>>
    /\ hits = 0
    /\ misses = 0
    /\ now = 0
    /\ lastOp = NoOp

\* no call of call_llm is under way
InitNoCall ==
    /\ pc = "idle"
    /\ msg = "m1"
    /\ use_cache = TRUE
    /\ attempt = 0
    /\ last_exception = 0
    /\ result = Absent
    /\ raised = 0
    /\ calls = 0
    /\ attempts = 0
    /\ failures = 0
    /\ remoteCalls = 0
    /\ slept = 0
    /\ firstCached = Absent

Threads == {1, 2}

\* a thread that is in no cache operation
IdleThread ==
    [pc |-> "idle", key |-> Absent, val |-> Absent, value |-> Absent,
     expire_time |-> 0, oldest_key |-> Absent, tmp |-> 0, err |-> "", ops |-> 0]

InitNoThreads ==
    /\ th = [t \in Threads |-> IdleThread]
    /\ getsDone = 0

\* a Python str
Str(s) == [type |-> "str", text |-> s]

\* the dict an analyzer's process_text_message returns
AgentDict(a, st) == [type |-> "dict", agent |-> a, status |-> st]

Analyzers == {"legal", "business"}
AgentNames == {"document", "legal", "business", "integration"}

\* no request is being processed
InitNoRun ==
    /\ stage = "idle"
    /\ state = [user_input |-> 0, final_response |-> Str(""), error |-> Absent]
    /\ task = [a \in Analyzers |-> "none"]
    /\ taskValue = [a \in Analyzers |-> Str("")]
    /\ pending = {}
    /\ results = [a \in Analyzers |-> Str("")]
    /\ invoked = {}
    /\ order = <<>>
    /\ docOutcome = "none"
    /\ response = Str("")

InitCache ==
    /\ InitStore
    /\ InitExt
    /\ InitNoCall
    /\ InitNoThreads
    /\ InitNoRun
    /\ agents = [a \in AgentNames |-> TRUE]
    /\ max_retries = MaxRetries

Get(k) ==
    /\ hits + misses < MaxGets
    /\ cache' = GetCache(cache, k, now)
    /\ hits' = IF GetHit(cache, k, now) THEN hits + 1 ELSE hits
    /\ misses' = IF GetHit(cache, k, now) THEN misses ELSE misses + 1
    /\ lastOp' = Op("get", k, Absent, GetReturn(cache, k, now), cache, now,
                     IF lastOp.op = "set" /\ lastOp.key = k
                     THEN (IF lastOp.size = 0 THEN "empty"
                           ELSE IF lastOp.size < max_size THEN "part" ELSE "full")
                     ELSE "none")
    /\ UNCHANGED <<now, restCache>>

Set(k, v) ==
    /\ cache' = SetCache(cache, k, v, now)
    /\ lastOp' = Op("set", k, v, Absent, cache, now, "none")
    /\ UNCHANGED <<hits, misses, now, restCache>>

Clear ==
    /\ cache' = <<>>
    /\ hits' = 0
    /\ misses' = 0
    /\ lastOp' = Op("clear", Absent, Absent, Absent, cache, now, "none")
    /\ UNCHANGED <<now, restCache>>

Tick ==
    /\ now < MaxTime
    /\ now' = now + 1
    /\ UNCHANGED <<cache, hits, misses, lastOp, restCache>>

NextCache ==
    \/ \E k \in Keys : Get(k)
    \/ \E k \in Keys, v \in Values : Set(k, v)
    \/ Clear
    \/ Tick

SpecCache == InitCache /\ [][NextCache]_vars

(***************************************************************************)
(* Claims about SimpleCache, checked under SpecCache.  A step that leaves  *)
(* the clock alone and ends with lastOp.op = "get" (or "set") is a call of *)
(* get (or set): primed variables are the store after the call, unprimed   *)
(* ones the store it was called on.                                        *)
(***************************************************************************)
IsGetStep == now' = now /\ lastOp'.op = "get"
IsSetStep == now' = now /\ lastOp'.op = "set"

\* c without its i-th entry
RemoveAt(c, i) == [j \in 1..(Len(c) - 1) |-> IF j < i THEN c[j] ELSE c[j + 1]]

C8_Bounded == StatsSize(cache) <= max_size

C8_EvictsSmallest ==
    [][(IsSetStep /\ ~HasKey(cache, lastOp'.key) /\ Len(cache) = max_size) =>
         \E i \in 1..Len(cache) :
            /\ \A j \in 1..Len(cache) : cache[i].expire <= cache[j].expire
            /\ cache' = Append(RemoveAt(cache, i),
                               Entry(lastOp'.key, lastOp'.val, now + ttl))]_vars

\* C8: after any sequence of set, get and clear the store holds at most max_size
\* entries, and a set of a new key into a store holding max_size entries removes
\* exactly one entry, one with the smallest expire time, and then inserts.
C8_SizeBoundedEvictOne == []C8_Bounded /\ C8_EvictsSmallest

\* a set of a new key on a full store has happened, and evicted
C8_Witness ==
    /\ lastOp.op = "set"
    /\ ~lastOp.had
    /\ lastOp.size = max_size
    /\ Len(cache) = max_size
    /\ HasKey(cache, lastOp.key)

\* C9: get(k) at now >= expire returns None, deletes k (stats size drops by one)
\* and counts a miss; get(k) at now < expire returns the value, counts a hit and
\* deletes nothing.
C9_GetExpiry ==
    [][IsGetStep =>
         LET k == lastOp'.key IN
         /\ (HasKey(cache, k) /\ now >= Lookup(cache, k).expire) =>
                /\ lastOp'.ret = Absent
                /\ ~HasKey(cache', k)
                /\ StatsSize(cache') = StatsSize(cache) - 1
                /\ misses' = misses + 1
                /\ hits' = hits
         /\ (HasKey(cache, k) /\ now < Lookup(cache, k).expire) =>
                /\ lastOp'.ret = Lookup(cache, k).value
                /\ hits' = hits + 1
                /\ misses' = misses
                /\ cache' = cache]_vars

\* a get of a stored, expired key has happened: one entry fewer, one miss more
C9_Witness ==
    /\ lastOp.op = "get"
    /\ lastOp.had
    /\ lastOp.ret = Absent
    /\ StatsSize(cache) = lastOp.size - 1
    /\ misses > 0

\* C10: set(k, v) directly followed by get(k) before ttl has elapsed returns v,
\* whatever the store held at the set.
C10_SetThenGet ==
    [][(IsGetStep /\ lastOp.op = "set" /\ lastOp'.key = lastOp.key
          /\ now < lastOp.at + ttl) =>
         lastOp'.ret = lastOp.val]_vars

\* a get that followed a set of the same key on a full store returned a value
C10_Witness ==
    /\ lastOp.op = "get"
    /\ lastOp.after = "full"
    /\ lastOp.ret \in Values

(***************************************************************************)
(* SpecLLM: BaseAgent.call_llm under @retry_on_error.  The decorator wraps *)
(* the whole of call_llm, so every attempt runs the cache lookup, the      *)
(* remote call and the cache insert again.                                 *)
(***************************************************************************)
Msgs == {"m1", "m2"}
\* response.content of a remote call that returns
Responses == {"", "r"}
\* one remote call: it raises, or returns a response
Outcomes == {"raise"} \cup Responses

\* BaseAgent._generate_cache_key: the md5 hex digest of the message
GenerateCacheKey(m) == IF m = "m1" THEN "k1" ELSE "k2"

\* Python's truth value of a string or None: `if cached_result:`
Truthy(v) == v # Absent /\ v # ""

\* a retry loop that runs one time too many
LoopContinuesOnceMore(a) == a + 1 <= max_retries

\* for attempt in range(max_retries): is there an iteration after attempt a
LoopContinues(a) == a + 1 < max_retries

\* if attempt < max_retries - 1: sleep before the next iteration
SleepsAfter(a) == a < max_retries - 1

\* a backoff that waits the base delay every time
SleepTimeFlat(a) == delay

\* time.sleep(delay * (attempt + 1))
SleepTime(a) == delay * (a + 1)

\* the sleeps of a call whose attempts all fail
MaxTotalSleep(n) == (delay * n * (n - 1)) \div 2

InitLLM ==
    /\ InitStore
    /\ InitExt
    /\ InitNoCall
    /\ InitNoThreads
    /\ InitNoRun
    /\ agents = [a \in AgentNames |-> TRUE]
    /\ max_retries \in 1..MaxRetries

\* a caller enters the wrapper: last_exception = None, the loop starts
CallLLM(m, uc) ==
    /\ pc \in {"idle", "returned", "raised"}
    /\ calls < MaxCalls
    /\ now <= MaxTime
    /\ pc' = "attempt"
    /\ msg' = m
    /\ use_cache' = uc
    /\ attempt' = 0
    /\ last_exception' = 0
    /\ result' = Absent
    /\ raised' = 0
    /\ calls' = calls + 1
    /\ attempts' = 0
    /\ failures' = 0
    /\ remoteCalls' = 0
    /\ slept' = 0
    /\ firstCached' = Absent
    /\ UNCHANGED <<cache, hits, misses, now, max_retries, restLLM>>

\* one iteration of the retry loop: the body of call_llm, then the handler.
\* o is what the remote call does if it is made, d the time it takes.
Attempt(o, d) ==
    /\ pc = "attempt"
    /\ LET key == GenerateCacheKey(msg)
           hit == use_cache /\ GetHit(cache, key, now)
           cached_result == IF use_cache THEN GetReturn(cache, key, now) ELSE Absent
           c1 == IF use_cache THEN GetCache(cache, key, now) ELSE cache
       IN
       /\ attempts' = attempts + 1
       /\ hits' = IF hit THEN hits + 1 ELSE hits
       /\ misses' = IF use_cache /\ ~hit THEN misses + 1 ELSE misses
       /\ firstCached' = IF attempts = 0 /\ hit THEN cached_result ELSE firstCached
       /\ IF Truthy(cached_result)
          THEN \* return cached_result
               /\ d = 0
               /\ o = "raise"
               /\ pc' = "returned"
               /\ result' = cached_result
               /\ cache' = c1
               /\ UNCHANGED <<now, attempt, last_exception, raised, failures,
                              remoteCalls, slept>>
          ELSE \* response = self.llm.invoke(messages)
               /\ now + d <= MaxTime \/ d = 0
               /\ remoteCalls' = remoteCalls + 1
               /\ IF o # "raise"
                  THEN \* self.cache.set(cache_key, result); return result
                       /\ cache' = IF use_cache
                                   THEN SetCache(c1, key, o, now + d)
                                   ELSE c1
                       /\ now' = now + d
                       /\ pc' = "returned"
                       /\ result' = o
                       /\ UNCHANGED <<attempt, last_exception, raised, failures, slept>>
                  ELSE \* except Exception as e
                       /\ cache' = c1
                       /\ last_exception' = attempts + 1
                       /\ failures' = failures + 1
                       /\ now' = now + d + (IF SleepsAfter(attempt)
                                            THEN SleepTime(attempt) ELSE 0)
                       /\ slept' = slept + (IF SleepsAfter(attempt)
                                            THEN SleepTime(attempt) ELSE 0)
                       /\ IF LoopContinues(attempt)
                          THEN /\ attempt' = attempt + 1
                               /\ pc' = "attempt"
                               /\ UNCHANGED raised
                          ELSE \* raise last_exception
                               /\ pc' = "raised"
                               /\ raised' = last_exception'
                               /\ UNCHANGED attempt
                       /\ UNCHANGED result
    /\ UNCHANGED <<msg, use_cache, calls, max_retries, restLLM>>

\* the clock advances between calls and between attempts
TickLLM ==
    /\ now < MaxTime
    /\ now' = now + 1
    /\ UNCHANGED <<cache, hits, misses, llmVars, restLLM>>

NextLLM ==
    \/ \E m \in Msgs, uc \in BOOLEAN : CallLLM(m, uc)
    \/ \E o \in Outcomes, d \in 0..MaxLatency : Attempt(o, d)
    \/ TickLLM

SpecLLM == InitLLM /\ [][NextLLM]_vars

C2_HitReturnsAtOnce ==
    (attempts >= 1 /\ use_cache /\ firstCached # Absent) =>
        /\ pc = "returned"
        /\ result = firstCached
        /\ attempts = 1
        /\ remoteCalls = 0
        /\ slept = 0

(***************************************************************************)
(* SpecConc: two threads call get and set on one SimpleCache.  The class   *)
(* takes no lock, so the threads interleave between the statements of get  *)
(* and set; `self.hits += 1` is a load and a store.  The scan of min() in  *)
(* set is taken as one step.                                               *)
(***************************************************************************)
ConcValues == {"a"}

\* thread t moves to pc p with the local variables of f changed
Goto(t, p, f) == th' = [th EXCEPT ![t] = [f EXCEPT !.pc = p]]

\* an exception leaves the operation
Raise(t, e) == th' = [th EXCEPT ![t] = [@ EXCEPT !.pc = "raised", !.err = e]]

InitConc ==
    /\ InitStore
    /\ InitExt
    /\ InitNoCall
    /\ InitNoThreads
    /\ InitNoRun
    /\ agents = [a \in AgentNames |-> TRUE]
    /\ max_retries = MaxRetries

StartGet(t, k) ==
    /\ th[t].pc = "idle"
    /\ th[t].ops < MaxOps
    /\ Goto(t, "g_in", [th[t] EXCEPT !.key = k, !.ops = @ + 1])
    /\ UNCHANGED <<cache, hits, misses, now, getsDone, restConc>>

StartSet(t, k, v) ==
    /\ th[t].pc = "idle"
    /\ th[t].ops < MaxOps
    /\ Goto(t, "s_len", [th[t] EXCEPT !.key = k, !.val = v, !.ops = @ + 1])
    /\ UNCHANGED <<cache, hits, misses, now, getsDone, restConc>>

\* if key in self.cache:
GetIn(t) ==
    /\ th[t].pc = "g_in"
    /\ Goto(t, IF HasKey(cache, th[t].key) THEN "g_load" ELSE "g_miss_ld", th[t])
    /\ UNCHANGED <<cache, hits, misses, now, getsDone, restConc>>

\* value, expire_time = self.cache[key]
GetLoad(t) ==
    /\ th[t].pc = "g_load"
    /\ IF HasKey(cache, th[t].key)
       THEN Goto(t, "g_cmp", [th[t] EXCEPT
                                !.value = Lookup(cache, th[t].key).value,
                                !.expire_time = Lookup(cache, th[t].key).expire])
       ELSE Raise(t, "KeyError")
    /\ UNCHANGED <<cache, hits, misses, now, getsDone, restConc>>

\* if datetime.now() < expire_time:
GetCmp(t) ==
    /\ th[t].pc = "g_cmp"
    /\ Goto(t, IF now < th[t].expire_time THEN "g_hit_ld" ELSE "g_del", th[t])
    /\ UNCHANGED <<cache, hits, misses, now, getsDone, restConc>>

\* self.hits += 1: the load
GetHitLoad(t) ==
    /\ th[t].pc = "g_hit_ld"
    /\ Goto(t, "g_hit_st", [th[t] EXCEPT !.tmp = hits])
    /\ UNCHANGED <<cache, hits, misses, now, getsDone, restConc>>

\* self.hits += 1: the store; return value
GetHitStore(t) ==
    /\ th[t].pc = "g_hit_st"
    /\ hits' = th[t].tmp + 1
    /\ getsDone' = getsDone + 1
    /\ Goto(t, "idle", th[t])
    /\ UNCHANGED <<cache, misses, now, restConc>>

\* del self.cache[key]
GetDel(t) ==
    /\ th[t].pc = "g_del"
    /\ IF HasKey(cache, th[t].key)
       THEN /\ cache' = Remove(cache, th[t].key)
            /\ Goto(t, "g_miss_ld", th[t])
       ELSE /\ Raise(t, "KeyError")
            /\ UNCHANGED cache
    /\ UNCHANGED <<hits, misses, now, getsDone, restConc>>

\* self.misses += 1: the load
GetMissLoad(t) ==
    /\ th[t].pc = "g_miss_ld"
    /\ Goto(t, "g_miss_st", [th[t] EXCEPT !.tmp = misses])
    /\ UNCHANGED <<cache, hits, misses, now, getsDone, restConc>>

\* self.misses += 1: the store; return None
GetMissStore(t) ==
    /\ th[t].pc = "g_miss_st"
    /\ misses' = th[t].tmp + 1
    /\ getsDone' = getsDone + 1
    /\ Goto(t, "idle", [th[t] EXCEPT !.value = Absent])
    /\ UNCHANGED <<cache, hits, now, restConc>>

\* if len(self.cache) >= self.max_size:
SetLen(t) ==
    /\ th[t].pc = "s_len"
    /\ Goto(t, IF SetEvicts(cache) THEN "s_min" ELSE "s_exp", th[t])
    /\ UNCHANGED <<cache, hits, misses, now, getsDone, restConc>>

\* oldest_key = min(self.cache.items(), key=...)[0]
SetMin(t) ==
    /\ th[t].pc = "s_min"
    /\ IF Len(cache) = 0
       THEN Raise(t, "ValueError")
       ELSE Goto(t, "s_del", [th[t] EXCEPT !.oldest_key = OldestKey(cache)])
    /\ UNCHANGED <<cache, hits, misses, now, getsDone, restConc>>

\* del self.cache[oldest_key]
SetDel(t) ==
    /\ th[t].pc = "s_del"
    /\ IF HasKey(cache, th[t].oldest_key)
       THEN /\ cache' = Remove(cache, th[t].oldest_key)
            /\ Goto(t, "s_exp", th[t])
       ELSE /\ Raise(t, "KeyError")
            /\ UNCHANGED cache
    /\ UNCHANGED <<hits, misses, now, getsDone, restConc>>

\* expire_time = datetime.now() + timedelta(seconds=self.ttl)
SetExpire(t) ==
    /\ th[t].pc = "s_exp"
    /\ Goto(t, "s_put", [th[t] EXCEPT !.expire_time = now + ttl])
    /\ UNCHANGED <<cache, hits, misses, now, getsDone, restConc>>

\* self.cache[key] = (value, expire_time)
SetPut(t) ==
    /\ th[t].pc = "s_put"
    /\ cache' = Put(cache, th[t].key, th[t].val, th[t].expire_time)
    /\ Goto(t, "idle", th[t])
    /\ UNCHANGED <<hits, misses, now, getsDone, restConc>>

TickConc ==
    /\ now < MaxTime
    /\ now' = now + 1
    /\ UNCHANGED <<cache, hits, misses, concVars, restConc>>

NextConc ==
    \/ \E t \in Threads, k \in Keys : StartGet(t, k)
    \/ \E t \in Threads, k \in Keys, v \in ConcValues : StartSet(t, k, v)
    \/ \E t \in Threads : GetIn(t)
    \/ \E t \in Threads : GetLoad(t)
    \/ \E t \in Threads : GetCmp(t)
    \/ \E t \in Threads : GetHitLoad(t)
    \/ \E t \in Threads : GetHitStore(t)
    \/ \E t \in Threads : GetDel(t)
    \/ \E t \in Threads : GetMissLoad(t)
    \/ \E t \in Threads : GetMissStore(t)
    \/ \E t \in Threads : SetLen(t)
    \/ \E t \in Threads : SetMin(t)
    \/ \E t \in Threads : SetDel(t)
    \/ \E t \in Threads : SetExpire(t)
    \/ \E t \in Threads : SetPut(t)
    \/ TickConc

SpecConc == InitConc /\ [][NextConc]_vars

\* C7: with the cache shared by concurrent tasks, in every interleaving of get
\* and set no operation raises, the store never holds more than max_size
\* entries, and hits + misses is the number of completed get operations.
C7_ConcurrentUncorrupted ==
    /\ \A t \in Threads : th[t].pc # "raised"
    /\ Len(cache) <= max_size
    /\ hits + misses = getsDone

(***************************************************************************)
(* SpecFlow: one request through ContractCoordinator.  The graph runs the  *)
(* nodes plan, document, parallel, integrate in that order; the parallel   *)
(* node submits the legal and the business analyzer to the thread pool and *)
(* collects them with as_completed.  The analyzers are black boxes: an     *)
(* invoke returns a dict with status "success" or "error", raises, or      *)
(* never returns.                                                          *)
(***************************************************************************)
\* len(user_input) of the requests considered
InputLens == {10, 999, 1000, 9999, 10000}
\* str(e) of the exceptions an analyzer's invoke may raise
ExcMsgs == {"", "boom"}

\* plan_workflow: input_length < 1000, input_length < 10000
FastLimit == 1000
StandardLimit == 10000

\* a merge that returns only the new fields
UpdDropsState(s, r) == r

\* {**state, ...}: the fields of r added to, or overwriting, those of s
Upd(s, r) ==
    [k \in DOMAIN s \cup DOMAIN r |-> IF k \in DOMAIN r THEN r[k] ELSE s[k]]

\* state.get(k, default)
GetField(s, k, default) == IF k \in DOMAIN s THEN s[k] ELSE default

\* "因上游错误跳过": the placeholder of a skipped analysis
Skipped == Str("skipped: upstream error")
\* "未执行"
NotRun == Str("not run")
\* f"Error: {str(e)}"
ErrorStr(m) == Str("Error: " \o m)
\* {"status": "error", "message": str(e)}
ErrorRecord(m) == [type |-> "dict", status |-> "error", message |-> m]

\* ValueError("文档处理智能体不可用"), ValueError("分析智能体不可用")
DocUnavailable == "document agent unavailable"
AnalysisUnavailable == "analysis agents unavailable"

\* the signatures of process_text_message: (message, context=None) in the
\* document, legal and business agents, (message) in the integration agent;
\* BaseAgent.invoke passes (user_text, context)
AcceptsContext(a) == a # "integration"

\* str(v)
Repr(v) ==
    IF v.type = "str" THEN v.text
    ELSE IF "agent" \in DOMAIN v
         THEN "{'agent': '" \o v.agent \o "', 'status': '" \o v.status \o "'}"
         ELSE "{'status': '" \o v.status \o "', 'message': '" \o v.message \o "'}"

\* _extract_key_info: the summary of a dict's response_text, or the string itself
extract_key_info(v) ==
    IF v.type = "str" THEN v.text
    ELSE IF "agent" \in DOMAIN v
         THEN "{\"summary\": \"" \o v.agent \o " " \o v.status \o " response\"}"
         ELSE "{}"

\* a classification whose first band takes the length 1000 as well
StrategyInclusive(n) ==
    IF n <= FastLimit THEN "fast"
    ELSE IF n < StandardLimit THEN "standard" ELSE "chunked"

\* plan_workflow: the strategy for an input of length n
Strategy(n) ==
    IF n < FastLimit THEN "fast"
    ELSE IF n < StandardLimit THEN "standard" ELSE "chunked"

\* a graph whose edges skip the document node and run it after the analysis
NextNodeOutOfOrder(node) ==
    CASE node = "plan" -> "parallel"
      [] node = "parallel" -> "document"
      [] node = "document" -> "integrate"
      [] node = "integrate" -> "end"

\* _build_workflow_graph: the edge out of a node; the finish point leads to END
NextNode(node) ==
    CASE node = "plan" -> "document"
      [] node = "document" -> "parallel"
      [] node = "parallel" -> "integrate"
      [] node = "integrate" -> "end"

InitFlow ==
    /\ InitStore
    /\ InitNoMessage
    /\ InitNoRisk
    /\ InitNoReview
    /\ reprLen \in [{"document", "legal", "business"} -> ReprLens]
    /\ InitNoCall
    /\ InitNoThreads
    /\ InitNoRun
    /\ max_retries = MaxRetries
    /\ agents \in [AgentNames -> BOOLEAN]

\* process_text_message: the initial state is handed to graph.invoke
Process(n) ==
    /\ stage = "idle"
    /\ state' = [user_input |-> n, final_response |-> Str(""), error |-> Absent]
    /\ stage' = "plan"
    /\ UNCHANGED <<agents, task, taskValue, pending, results, invoked, order,
                   docOutcome, response, restFlow>>

plan_workflow ==
    /\ stage = "plan"
    /\ LET input_length == GetField(state, "user_input", 0) IN
       state' = Upd(state, [workflow_plan |-> Strategy(input_length),
                            use_compression |-> (Strategy(input_length) = "chunked"),
                            metrics |-> "WorkflowMetrics",
                            error |-> Absent])
    /\ stage' = NextNode("plan")
    /\ UNCHANGED <<agents, task, taskValue, pending, results, invoked, order,
                   docOutcome, response, restFlow>>

\* the except branch of run_document_agent_optimized
DocumentFailed(m) ==
    state' = Upd(state, [document_result |-> ErrorRecord(m),
                         context_summary |-> "",
                         error |-> m])

\* run_document_agent_optimized; o is what the document analyzer does
run_document_agent_optimized(o) ==
    /\ stage = "document"
    /\ IF ~agents["document"]
       THEN /\ o = "unavailable"
            /\ DocumentFailed(DocUnavailable)
            /\ UNCHANGED invoked
       ELSE /\ invoked' = invoked \cup {"document"}
            /\ \/ /\ o \in {"success", "error"}
                  /\ LET doc_result == AgentDict("document", o) IN
                     state' = Upd(state, [document_result |-> doc_result,
                                          context_summary |-> extract_key_info(doc_result),
                                          metrics |-> "WorkflowMetrics",
                                          error |-> Absent])
               \/ /\ o = "raise"
                  /\ \E m \in ExcMsgs : DocumentFailed(m)
    /\ docOutcome' = IF o = "error" THEN "status_error" ELSE o
    /\ stage' = NextNode("document")
    /\ UNCHANGED <<agents, task, taskValue, pending, results, order, response,
                   restFlow>>

\* run_parallel_agents_optimized up to the submits: skip on an upstream error,
\* fail when an analyzer is missing, else submit both tasks
run_parallel_agents_optimized ==
    /\ stage = "parallel"
    /\ IF Truthy(GetField(state, "error", Absent))
       THEN /\ state' = Upd(state, [legal_result |-> Skipped,
                                    business_result |-> Skipped])
            /\ stage' = NextNode("parallel")
            /\ UNCHANGED <<task, pending, results>>
       ELSE IF ~agents["legal"] \/ ~agents["business"]
       THEN /\ state' = Upd(state, [legal_result |-> ErrorStr(AnalysisUnavailable),
                                    business_result |-> ErrorStr(AnalysisUnavailable)])
            /\ stage' = NextNode("parallel")
            /\ UNCHANGED <<task, pending, results>>
       ELSE /\ task' = [a \in Analyzers |-> "submitted"]
            /\ pending' = Analyzers
            /\ results' = [a \in Analyzers |-> NotRun]
            /\ stage' = "join"
            /\ UNCHANGED state
    /\ UNCHANGED <<agents, taskValue, invoked, order, docOutcome, response, restFlow>>

\* a pool thread starts _safe_agent_invoke: agent.invoke({"text": text})
TaskStart(a) ==
    /\ task[a] = "submitted"
    /\ task' = [task EXCEPT ![a] = "running"]
    /\ invoked' = invoked \cup {a}
    /\ UNCHANGED <<agents, stage, state, taskValue, pending, results, order,
                   docOutcome, response, restFlow>>

\* the analyzer returns its dict
TaskReturn(a, st) ==
    /\ task[a] = "running"
    /\ task' = [task EXCEPT ![a] = "ok"]
    /\ taskValue' = [taskValue EXCEPT ![a] = AgentDict(a, st)]
    /\ order' = Append(order, a)
    /\ UNCHANGED <<agents, stage, state, pending, results, invoked, docOutcome,
                   response, restFlow>>

\* the analyzer raises; _safe_agent_invoke logs and re-raises
TaskRaise(a, m) ==
    /\ task[a] = "running"
    /\ task' = [task EXCEPT ![a] = "raised"]
    /\ taskValue' = [taskValue EXCEPT ![a] = Str(m)]
    /\ order' = Append(order, a)
    /\ UNCHANGED <<agents, stage, state, pending, results, invoked, docOutcome,
                   response, restFlow>>

\* the analyzer never returns
TaskHang(a) ==
    /\ task[a] = "running"
    /\ task' = [task EXCEPT ![a] = "hung"]
    /\ UNCHANGED <<agents, stage, state, taskValue, pending, results, invoked,
                   order, docOutcome, response, restFlow>>

\* a loop that gives up on a future that is not done
FutureDoneOrRunning(a) == task[a] \in {"ok", "raised", "running", "hung"}

\* as_completed(futures) yields a future only when it is done
FutureDone(a) == task[a] \in {"ok", "raised"}

\* a loop that files a result under the other analyzer
SlotOfSibling(a) == IF a = "legal" THEN "business" ELSE "legal"

\* agent_type = futures[future]: the slot a future's result goes to
SlotOf(a) == a

\* one iteration of `for future in as_completed(futures)`: future.result(timeout=60)
\* of a done future returns its value or raises its exception at once
JoinTake(a) ==
    /\ stage = "join"
    /\ a \in pending
    /\ FutureDone(a)
    /\ results' = [results EXCEPT ![SlotOf(a)] =
                      IF task[a] = "ok" THEN taskValue[a]
                      ELSE IF task[a] = "raised" THEN ErrorStr(taskValue[a].text)
                      ELSE ErrorStr("")]   \* str(TimeoutError())
    /\ pending' = pending \ {a}
    /\ UNCHANGED <<agents, stage, state, task, taskValue, invoked, order,
                   docOutcome, response, restFlow>>

\* the loop has ended: the node returns the merged state
JoinReturn ==
    /\ stage = "join"
    /\ pending = {}
    /\ state' = Upd(state, [legal_result |-> results["legal"],
                            business_result |-> results["business"],
                            metrics |-> "WorkflowMetrics"])
    /\ stage' = NextNode("parallel")
    /\ UNCHANGED <<agents, task, taskValue, pending, results, invoked, order,
                   docOutcome, response, restFlow>>

\* len(str(v)): the length of the text of a str or of an error dict, and of
\* an analyzer's dict the length its run produced
ReprLen(v) ==
    IF v.type = "str" THEN Len(v.text)
    ELSE IF "agent" \in DOMAIN v THEN reprLen[v.agent]
    ELSE Len(Repr(v))

\* the smaller of two numbers
Min(a, b) == IF a <= b THEN a ELSE b

\* a preview that is not cut
PreviewWhole(v) == [of |-> Repr(v), len |-> ReprLen(v)]

\* str(v)[:500]: the first len characters of the text `of`
Preview(v) == [of |-> Repr(v), len |-> Min(ReprLen(v), PreviewLimit)]

\* a fallback that clears the error, as the agent path does
simple_integration_clears(s) ==
    Upd(s, [final_response |->
              [type |-> "json",
               status |-> "success",
               document_analysis |-> Preview(GetField(s, "document_result", Str(""))),
               legal_analysis |-> Preview(GetField(s, "legal_result", Str(""))),
               business_analysis |-> Preview(GetField(s, "business_result", Str(""))),
               note |-> "simplified mode"],
            error |-> Absent])

\* _simple_integration
simple_integration(s) ==
    Upd(s, [final_response |->
              [type |-> "json",
               status |-> "success",
               document_analysis |-> Preview(GetField(s, "document_result", Str(""))),
               legal_analysis |-> Preview(GetField(s, "legal_result", Str(""))),
               business_analysis |-> Preview(GetField(s, "business_result", Str(""))),
               note |-> "simplified mode"]])

\* run_integration_agent_optimized
run_integration_agent_optimized ==
    /\ stage = "integrate"
    /\ IF ~agents["integration"]
       THEN /\ state' = simple_integration(state)
            /\ UNCHANGED invoked
       ELSE /\ invoked' = invoked \cup {"integration"}
            /\ IF ~AcceptsContext("integration")
               THEN \* invoke raises TypeError: the except branch
                    state' = simple_integration(state)
               ELSE state' = Upd(state,
                       [final_response |-> AgentDict("integration", "success"),
                        metrics |-> "WorkflowMetrics",
                        error |-> Absent])
    /\ stage' = NextNode("integrate")
    /\ UNCHANGED <<agents, task, taskValue, pending, results, order, docOutcome,
                   response, restFlow>>

\* process_text_message: graph.invoke has returned
Respond ==
    /\ stage = "end"
    /\ response' = GetField(state, "final_response", Str("no report"))
    /\ stage' = "responded"
    /\ UNCHANGED <<agents, state, task, taskValue, pending, results, invoked,
                   order, docOutcome, restFlow>>

\* an error message under which the exception leaves process_text_message
FailureEscapes(m) == [type |-> "exception", text |-> m]

\* f"审查流程失败: {str(e)}"
FailureResponse(m) == Str("review failed: " \o m)

\* process_text_message: graph.invoke raises between two nodes, the except
\* branch answers with the failure message
WorkflowFailed(m) ==
    /\ stage \in {"plan", "document", "parallel", "integrate"}
    /\ response' = FailureResponse(m)
    /\ stage' = "responded"
    /\ UNCHANGED <<agents, state, task, taskValue, pending, results, invoked,
                   order, docOutcome, restFlow>>

NextFlow ==
    \/ \E n \in InputLens : Process(n)
    \/ \E m \in ExcMsgs : WorkflowFailed(m)
    \/ plan_workflow
    \/ \E o \in {"unavailable", "success", "error", "raise"} :
          run_document_agent_optimized(o)
    \/ run_parallel_agents_optimized
    \/ \E a \in Analyzers : TaskStart(a)
    \/ \E a \in Analyzers, st \in {"success", "error"} : TaskReturn(a, st)
    \/ \E a \in Analyzers, m \in ExcMsgs : TaskRaise(a, m)
    \/ \E a \in Analyzers : TaskHang(a)
    \/ \E a \in Analyzers : JoinTake(a)
    \/ JoinReturn
    \/ run_integration_agent_optimized
    \/ Respond

SpecFlow == InitFlow /\ [][NextFlow]_vars

(***************************************************************************)
(* Claims about the workflow, checked under SpecFlow.                      *)
(***************************************************************************)
\* the parallel node has returned
AfterParallel ==
    \/ stage \in {"integrate", "end"}
    \/ stage = "responded" /\ "legal_result" \in DOMAIN state

\* the state field an analyzer's result is merged into
ResultField(a) == IF a = "legal" THEN "legal_result" ELSE "business_result"

Sibling(a) == IF a = "legal" THEN "business" ELSE "legal"

\* C3: if the document analyzer returns a result with status "error" (without
\* raising), the parallel node returns the skipped placeholder for legal_result
\* and business_result and invokes neither analyzer (stated for a coordinator
\* that holds both analyzers).
C3_StatusErrorSkipsAnalysis ==
    (docOutcome = "status_error" /\ agents["legal"] /\ agents["business"]) =>
        /\ invoked \cap Analyzers = {}
        /\ AfterParallel =>
              /\ GetField(state, "legal_result", NotRun) = Skipped
              /\ GetField(state, "business_result", NotRun) = Skipped

\* C4: a fanned-out task that never completes, beside a sibling that has
\* returned, does not block the run: the parallel node still finishes (the
\* per-task timeout ends the wait) and the workflow goes on to integration, so
\* the run is never left without a next step.
C4_HungTaskStageFinishes ==
    (\E a \in Analyzers : task[a] = "hung" /\ task[Sibling(a)] = "ok") =>
        (AfterParallel \/ ENABLED NextFlow)

\* C5: when one of the two analyzer tasks raises and the other returns, the
\* other's value is the one merged into its own result field and handed to the
\* integration node, and the failing task's field holds an error value, in
\* either completion order.
C5_SiblingResultKept ==
    AfterParallel =>
        \A a \in Analyzers :
            (task[a] = "raised" /\ task[Sibling(a)] = "ok") =>
                /\ state[ResultField(Sibling(a))] = taskValue[Sibling(a)]
                /\ state[ResultField(a)] = ErrorStr(taskValue[a].text)

\* the legal task raised first, the business task returned after it, and the
\* integration node is about to read the merged state
C5_Witness ==
    /\ stage = "integrate"
    /\ task["legal"] = "raised"
    /\ task["business"] = "ok"
    /\ order = <<"legal", "business">>
    /\ state["business_result"] = AgentDict("business", "success")

\* every submitted task has reported success or failure
AllReported == \A a \in Analyzers : task[a] \in {"none", "ok", "raised"}

C6_IntegrationAfterJoin ==
    (AfterParallel \/ "legal_result" \in DOMAIN state) =>
        (AllReported /\ pending = {})

C6_MergeAfterJoin == [][state' # state => AllReported]_vars

\* C6: the integration node never starts while a submitted analyzer task is
\* unresolved, and the workflow state changes only while no task is in flight:
\* the results are merged by the node's own thread after the join.
C6_JoinBarrier == []C6_IntegrationAfterJoin /\ C6_MergeAfterJoin

\* both tasks were submitted and have reported; integration is next
C6_Witness ==
    /\ stage = "integrate"
    /\ \A a \in Analyzers : task[a] \in {"ok", "raised"}
    /\ order = <<"business", "legal">>

(***************************************************************************)
(* SpecMsg: BaseAgent.process_text_message.  It validates the length of    *)
(* the text, joins text and context, calls call_llm (the retry wrapper of  *)
(* SpecLLM, itself wrapped by performance_monitor) and turns any exception *)
(* into an error string.                                                   *)
(***************************************************************************)
\* ProcessingConfig.min_text_length
min_text_length == 50
\* len(user_text) of the messages considered
MsgLens == {10, min_text_length - 1, min_text_length, 60}
\* the context argument
Contexts == {"", "c1"}

\* the canned answer to a text shorter than min_text_length
TooShort == Str("input text too short, please provide more content")

\* full_text: the text alone, or context and text joined
FullText(m, ctx) ==
    IF ctx = "" THEN m ELSE "context:" \o ctx \o " content:" \o m

\* str(e) of the exception the n-th attempt of call_llm raised
ExcText(n) == "llm failure " \o ToString(n)

\* an error string that leaves the exception's message out
MessageErrorGeneric(e) == Str("error while processing the message")

\* f"处理消息时发生错误：{str(e)}"
MessageError(e) == Str("error while processing the message: " \o ExcText(e))

InitMsg == InitLLM

\* process_text_message up to the call of call_llm
MessageStart(m, n, ctx) ==
    /\ msgPc \in {"idle", "done"}
    /\ pc = "idle"
    /\ calls < MaxCalls
    /\ msgLen' = n
    /\ msgRaised' = FALSE
    /\ errorLogs' = <<>>
    /\ IF n < min_text_length
       THEN /\ msgPc' = "done"
            /\ msgFull' = ""
            /\ msgReturn' = TooShort
       ELSE /\ msgPc' = "calling"
            /\ msgFull' = FullText(m, ctx)
            /\ msgReturn' = Absent
    /\ UNCHANGED <<cacheVars, llmVars, restMsg>>

\* response_text = self.call_llm(full_text)
MessageCall ==
    /\ msgPc = "calling"
    /\ pc = "idle"
    /\ CallLLM(msgFull, TRUE)

\* call_llm has returned or raised: return response_text, or the except branch
MessageFinish ==
    /\ msgPc = "calling"
    /\ pc \in {"returned", "raised"}
    /\ IF pc = "returned"
       THEN /\ msgReturn' = Str(result)
            /\ errorLogs' = errorLogs
       ELSE /\ msgReturn' = MessageError(raised)
            /\ errorLogs' = errorLogs \o <<"retry_on_error", "performance_monitor",
                                           "process_text_message">>
    /\ msgRaised' = FALSE
    /\ msgPc' = "done"
    /\ pc' = "idle"
    /\ UNCHANGED <<msgLen, msgFull, cacheVars, restMsg,
                   max_retries, msg, use_cache, attempt, last_exception, result,
                   raised, calls, attempts, failures, remoteCalls, slept,
                   firstCached>>

NextMsg ==
    \/ \E m \in Msgs, n \in MsgLens, ctx \in Contexts : MessageStart(m, n, ctx)
    \/ MessageCall
    \/ \E o \in Outcomes, d \in 0..MaxLatency : Attempt(o, d)
    \/ TickLLM
    \/ MessageFinish

SpecMsg == InitMsg /\ [][NextMsg]_vars

(***************************************************************************)
(* Claims about process_text_message, checked under SpecMsg.               *)
(***************************************************************************)
\* the number of entries of a log written by who
LoggedBy(who) == Cardinality({i \in 1..Len(errorLogs) : errorLogs[i] = who})

FinalReport == GetField(state, "final_response", Str(""))

\* the answers of the except branch of process_text_message
FailureResponses == {Str("review failed: " \o m) : m \in ExcMsgs}

\* C12: no exception leaves the coordinator's process_text_message: whatever
\* the agents do (succeed, return status "error", raise, be unavailable) the
\* run can go on until it has answered, the answer is a response object, and it
\* is the generic failure message when graph.invoke raised.
C12_AlwaysResponds ==
    /\ stage = "responded" =>
          \/ response.type = "json" /\ response = FinalReport
          \/ response \in FailureResponses
    /\ (stage \notin {"idle", "responded"} /\ \A a \in Analyzers : task[a] # "hung") =>
          ENABLED NextFlow

\* the document analyzer returned status "error", the legal analyzer raised,
\* and a later failure of graph.invoke was answered with the failure message
C12_Witness ==
    /\ stage = "responded"
    /\ docOutcome = "status_error"
    /\ task["legal"] = "raised"
    /\ "legal_result" \in DOMAIN state
    /\ response = Str("review failed: boom")

\* the three previews of a simplified report
PreviewFields ==
    {<<"document_analysis", "document_result">>,
     <<"legal_analysis", "legal_result">>,
     <<"business_analysis", "business_result">>}

\* C13: once the integration node has returned, the state holds a final report
\* and the run answers with it; with the integration agent unavailable, or its
\* invoke raising, it is the simplified report: a preview of str() of each of
\* the three results cut to 500 characters, and the simplified-mode note.
C13_SimplifiedReport ==
    /\ (stage = "responded" /\ FinalReport.type = "json") => response = FinalReport
    /\ (stage = "end" \/ (stage = "responded" /\ FinalReport.type = "json")) =>
        /\ FinalReport.type = "json"
        /\ FinalReport.note = "simplified mode"
        /\ \A f \in PreviewFields :
              /\ FinalReport[f[1]].of = Repr(state[f[2]])
              /\ FinalReport[f[1]].len <= 500
              /\ FinalReport[f[1]].len = Min(ReprLen(state[f[2]]), 500)

\* the integration agent was invoked and failed; the legal result, 501
\* characters long, was cut to 500, the shorter business result was kept whole
C13_Witness ==
    /\ stage = "end"
    /\ agents["integration"]
    /\ "integration" \in invoked
    /\ state["legal_result"] = AgentDict("legal", "success")
    /\ reprLen["legal"] = 501
    /\ FinalReport["legal_analysis"].len = 500
    /\ FinalReport["business_analysis"].len < 500

\* the edges of the graph, with the inside of the parallel node ("join")
StageEdges ==
    {<<"idle", "plan">>, <<"plan", "document">>, <<"document", "parallel">>,
     <<"parallel", "join">>, <<"parallel", "integrate">>, <<"join", "integrate">>,
     <<"integrate", "end">>, <<"end", "responded">>}

\* the fields each node has written when it has returned
WrittenBy(node) ==
    CASE node = "plan" -> {"workflow_plan", "use_compression"}
      [] node = "document" -> {"document_result", "context_summary"}
      [] node = "parallel" -> {"legal_result", "business_result"}
      [] node = "integrate" -> {"final_response"}

\* the nodes that have returned when the run is at a stage
ReturnedAt(st) ==
    CASE st = "document" -> {"plan"}
      [] st \in {"parallel", "join"} -> {"plan", "document"}
      [] st = "integrate" -> {"plan", "document", "parallel"}
      [] st = "end" -> {"plan", "document", "parallel", "integrate"}
      [] OTHER -> {}

C15_InOrder ==
    [][stage' # stage =>
         \/ <<stage, stage'>> \in StageEdges
         \/ stage' = "responded" /\ response' \in FailureResponses]_vars

C15_EachOnce ==
    /\ \A node \in ReturnedAt(stage) : WrittenBy(node) \subseteq DOMAIN state
    /\ \A node \in {"document", "parallel", "integrate"} \ ReturnedAt(stage) :
          stage \notin {"idle", "responded"} =>
             WrittenBy(node) \cap DOMAIN state \subseteq {"final_response"}

\* C15: in one run the nodes run in the order plan, document, parallel,
\* integrate, each once: a node starts only when the one before it has
\* returned, and graph.invoke returns only after integrate has (a run that
\* graph.invoke aborts answers with the failure message instead).
C15_StagesSequential == C15_InOrder /\ []C15_EachOnce

\* graph.invoke has returned after all four nodes ran, the parallel node
\* having submitted both analyzers
C15_Witness ==
    /\ stage = "end"
    /\ order = <<"legal", "business">>
    /\ {"workflow_plan", "document_result", "legal_result", "final_response"}
          \subseteq DOMAIN state

\* the fields a node owns
Owned(st) ==
    CASE st = "plan" -> {"workflow_plan", "use_compression", "metrics", "error"}
      [] st = "document" -> {"document_result", "context_summary", "metrics", "error"}
      [] st \in {"parallel", "join"} -> {"legal_result", "business_result", "metrics"}
      [] st = "integrate" -> {"final_response", "metrics", "error"}
      [] OTHER -> {}

\* C16: every node, on its success path and on its failure path, returns the
\* state it was given with only fields it owns added or overwritten: every
\* other field, user_input and the earlier results among them, is still there
\* with the same value.
C16_StageFrame ==
    [][(stage # "idle" /\ state' # state) =>
         /\ DOMAIN state' \subseteq DOMAIN state \cup Owned(stage)
         /\ \A k \in DOMAIN state \ Owned(stage) :
               k \in DOMAIN state' /\ state'[k] = state[k]]_vars

\* the document node failed, the parallel node skipped, integration ran: the
\* input and every earlier result are in the final state
C16_Witness ==
    /\ stage = "end"
    /\ docOutcome = "raise"
    /\ state["user_input"] = 10000
    /\ state["workflow_plan"] = "chunked"
    /\ state["document_result"] = ErrorRecord("boom")
    /\ state["legal_result"] = Skipped
    /\ FinalReport.type = "json"

(***************************************************************************)
(* IntegrationAgent (integration_agent.py): the risk assessment and the    *)
(* decision recommendation of the integrated report.                       *)
(*                                                                         *)
(* The text to integrate is seen by the code only through regular          *)
(* expressions, so a text is modelled as the set of the regexes that       *)
(* match it.  A regex is named by what it looks for.                       *)
(***************************************************************************)
\* a text has at most MaxFindings findings (a risk pattern that matches or a
\* required pattern that is absent)
MaxFindings == 3
\* at most MaxAdded risks are appended to the dict after the content analysis
MaxAdded == 1

\* analyze_content_risks: legal_patterns, as <<regex, description>>
legal_patterns ==
    << <<"no_challenge", "no-challenge clause">>,
       <<"unilateral_cancel", "unilateral bid cancellation">>,
       <<"against_regulation", "inconsistent with regulations">> >>

\* analyze_content_risks: financial_patterns, as <<regex, description>>
financial_patterns ==
    << <<"deposit_not_refunded", "deposit risk">>,
       <<"prepayment_limit", "prepayment restriction">>,
       <<"payment_delay", "late payment clause">> >>

\* analyze_content_risks: the patterns whose ABSENCE is a risk
required_patterns ==
    << <<"technical_standard", "operational_risks", "missing technical standard">>,
       <<"acceptance_standard", "operational_risks", "missing acceptance standard">>,
       <<"bid_document_requirement", "response_risks",
         "missing bid document requirement">> >>

\* identify_risk_indicators: risk_patterns, as <<regex, type, severity>>; the
\* severity is high when the pattern holds "保证金" or "无效"
risk_patterns ==
    << <<"deposit_not_refunded", "financial", "high">>,
       <<"qualification_void", "qualification", "high">>,
       <<"unilateral_change", "process", "medium">>,
       <<"shorter_than_period", "time", "medium">>,
       <<"no_challenge", "compliance", "medium">> >>

\* identify_compliance_issues: essential_elements, as <<regex, element>>
essential_elements ==
    << <<"project_name_or_number", "project information">>,
       <<"qualification_requirement", "qualification requirements">>,
       <<"deadline", "time requirements">>,
       <<"evaluation_standard", "evaluation standard">>,
       <<"challenge_or_complaint", "challenge procedure">> >>

RiskRegexes ==
    {legal_patterns[i][1] : i \in 1..Len(legal_patterns)}
    \cup {financial_patterns[i][1] : i \in 1..Len(financial_patterns)}
    \cup {risk_patterns[i][1] : i \in 1..Len(risk_patterns)}

RequiredRegexes ==
    {required_patterns[i][1] : i \in 1..Len(required_patterns)}
    \cup {essential_elements[i][1] : i \in 1..Len(essential_elements)}

\* the findings of a text: risk patterns that match, required ones that do not
Findings(c) == (c \cap RiskRegexes) \cup (RequiredRegexes \ c)

\* the texts: a text matching '不接受.*?质疑' also matches '质疑|投诉|异议'
Contents ==
    {c \in SUBSET (RiskRegexes \cup RequiredRegexes) :
        /\ Cardinality(Findings(c)) <= MaxFindings
        /\ ("no_challenge" \in c => "challenge_or_complaint" \in c)}

\* the descriptions (field k of the tuples) of the patterns that match c
Matched(pats, k, c) ==
    LET sel == SelectSeq(pats, LAMBDA p : p[1] \in c)
    IN  [i \in 1..Len(sel) |-> sel[i][k]]

\* the descriptions of the patterns of category cat that do not match c
Missing(cat, c) ==
    LET sel == SelectSeq(required_patterns, LAMBDA p : p[2] = cat /\ p[1] \notin c)
    IN  [i \in 1..Len(sel) |-> sel[i][3]]

\* IntegrationAgent.analyze_content_risks
analyze_content_risks(c) ==
    [legal_compliance_risks |-> Matched(legal_patterns, 2, c),
     financial_risks |-> Matched(financial_patterns, 2, c),
     operational_risks |-> Missing("operational_risks", c),
     response_risks |-> Missing("response_risks", c)]

\* score = 3; += count * 2 (legal), * 1.5 (financial), * 1 (any other
\* category); the sum is kept doubled so that it stays an integer
DoubledScore(r) ==
    6 + 4 * Len(r.legal_compliance_risks) + 3 * Len(r.financial_risks)
      + 2 * (Len(r.operational_risks) + Len(r.response_risks))

\* a scoring without the cap of 10
ScoreUncapped(r) == DoubledScore(r) \div 2

\* IntegrationAgent.calculate_overall_risk_score: min(int(score), 10)
calculate_overall_risk_score(r) == Min(DoubledScore(r) \div 2, 10)

\* the descriptions that contain "保证金"
MentionsDeposit == {"deposit risk"}

\* IntegrationAgent.identify_high_risk_items: every legal risk, then every
\* financial risk that mentions the deposit, each as an item of severity high
identify_high_risk_items(r) ==
    LET fin == SelectSeq(r.financial_risks, LAMBDA x : x \in MentionsDeposit)
    IN  [i \in 1..Len(r.legal_compliance_risks) |->
            [category |-> "legal compliance risk",
             description |-> r.legal_compliance_risks[i], severity |-> "high"]]
        \o [i \in 1..Len(fin) |->
            [category |-> "financial risk", description |-> fin[i],
             severity |-> "high"]]

\* IntegrationAgent.identify_risk_indicators
identify_risk_indicators(c) ==
    LET sel == SelectSeq(risk_patterns, LAMBDA p : p[1] \in c)
    IN  [i \in 1..Len(sel) |->
            [type |-> sel[i][2], description |-> sel[i][1],
             severity |-> sel[i][3]]]

\* IntegrationAgent.identify_compliance_issues: one issue per essential
\* element the text does not mention
identify_compliance_issues(c) ==
    LET sel == SelectSeq(essential_elements, LAMBDA p : p[1] \notin c)
    IN  [i \in 1..Len(sel) |-> "missing clause: " \o sel[i][2]]

\* IntegrationAgent.analyze_content_for_summary, the two parts the decision reads
analyze_content_for_summary(c) ==
    [risk_indicators |-> identify_risk_indicators(c),
     compliance_issues |-> identify_compliance_issues(c)]

\* the three recommendations of generate_decision_recommendation
Participate == "may bid, final review advised"
PrepareThenBid == "prepare a response to the high-risk clauses, then bid"
ClarifyFirst == "assess carefully or clarify with the tenderer before deciding"

\* IntegrationAgent.generate_decision_recommendation
generate_decision_recommendation(a) ==
    LET high_risk_count ==
            Len(SelectSeq(a.risk_indicators, LAMBDA x : x.severity = "high"))
        compliance_issues == Len(a.compliance_issues)
    IN  IF high_risk_count = 0 /\ compliance_issues = 0 THEN Participate
        ELSE IF high_risk_count <= 1 /\ compliance_issues <= 2 THEN PrepareThenBid
        ELSE ClarifyFirst

restRisk == <<cacheVars, llmVars, concVars, flowVars, msgVars, reprLen, runVars,
              compVars>>

InitRisk == InitCache

\* perform_integration reaches analyze_content_risks and
\* analyze_content_for_summary with the text c
AnalyzeContent(c) ==
    /\ riskPc = "idle"
    /\ riskPc' = "analyzed"
    /\ content' = c
    /\ risks' = analyze_content_risks(c)
    /\ analysis' = analyze_content_for_summary(c)
    /\ UNCHANGED <<added, report, restRisk>>

\* the descriptions the code appends to category cat
Descriptions(cat) ==
    CASE cat = "legal_compliance_risks" ->
            {legal_patterns[i][2] : i \in 1..Len(legal_patterns)}
      [] cat = "financial_risks" ->
            {financial_patterns[i][2] : i \in 1..Len(financial_patterns)}
      [] OTHER ->
            {required_patterns[i][3] : i \in
                {j \in 1..Len(required_patterns) : required_patterns[j][2] = cat}}

\* risks[cat].append(d): one more risk in the dict that is scored
Appended(r, cat, d) == [r EXCEPT ![cat] = Append(@, d)]

\* a risk is added to the dict before it is scored
AddRisk(cat, d) ==
    /\ riskPc = "analyzed"
    /\ added < MaxAdded
    /\ risks' = Appended(risks, cat, d)
    /\ added' = added + 1
    /\ UNCHANGED <<riskPc, content, analysis, report, restRisk>>

\* integrate_risk_assessment and create_executive_summary: the score, the
\* high-risk items and the decision of the report
Assess ==
    /\ riskPc = "analyzed"
    /\ riskPc' = "assessed"
    /\ report' = [overall_risk_score |-> calculate_overall_risk_score(risks),
                  high_risk_items |-> identify_high_risk_items(risks),
                  decision_recommendation |->
                      generate_decision_recommendation(analysis)]
    /\ UNCHANGED <<content, risks, analysis, added, restRisk>>

\* perform_integration returns; the locals of the call are gone
ReturnReport ==
    /\ riskPc = "assessed"
    /\ riskPc' = "idle"
    /\ content' = {}
    /\ risks' = NoRisks
    /\ analysis' = [risk_indicators |-> <<>>, compliance_issues |-> <<>>]
    /\ added' = 0
    /\ report' = [overall_risk_score |-> 0, high_risk_items |-> <<>>,
                  decision_recommendation |-> ""]
    /\ UNCHANGED restRisk

NextRisk ==
    \/ riskPc = "idle" /\ \E c \in Contents : AnalyzeContent(c)
    \/ riskPc = "analyzed" /\
            \E cat \in DOMAIN NoRisks : \E d \in Descriptions(cat) : AddRisk(cat, d)
    \/ Assess
    \/ ReturnReport

SpecRisk == InitRisk /\ [][NextRisk]_vars

(***************************************************************************)
(* C18: adding a risk, of any category, to the dict being scored never     *)
(* lowers calculate_overall_risk_score, and the score lies in 0..10.       *)
(***************************************************************************)
C18_ScoreInRange ==
    /\ calculate_overall_risk_score(risks) \in 0..10
    /\ report.overall_risk_score \in 0..10

C18_AddNeverLowers ==
    [][risks' # risks /\ added' = added + 1 =>
          calculate_overall_risk_score(risks')
              >= calculate_overall_risk_score(risks)]_vars

\* C18: the score is monotone under additions and stays within 0..10
C18_ScoreMonotoneBounded == []C18_ScoreInRange /\ C18_AddNeverLowers

\* C18: a dict that scored 9 got one more risk and was assessed: the sum is
\* past the cap and the score is 10
C18_Witness ==
    /\ riskPc = "assessed"
    /\ added = 1
    /\ calculate_overall_risk_score(analyze_content_risks(content)) = 9
    /\ DoubledScore(risks) > 20
    /\ report.overall_risk_score = 10

(***************************************************************************)
(* C17: the collected high-risk items never hold two risks with the same   *)
(* fingerprint (category in lower case, first 50 characters of the         *)
(* description, severity).                                                 *)
(***************************************************************************)
\* the descriptions of the model are shorter than 50 characters and the
\* categories are in lower case already, so the fingerprint is the triple
Fingerprint(item) == <<item.category, item.description, item.severity>>

DecisionLabel(score) ==
    IF score >= 8 THEN "do-not-sign"
    ELSE IF score >= 6 THEN "sign-with-caution"
    ELSE IF score >= 4 THEN "clarify-then-sign"
    ELSE "acceptable"

\* the code has three recommendations for the four labels; each is read as
\* every label it could stand for
ReadAs(recommendation) ==
    CASE recommendation = Participate -> {"acceptable"}
      [] recommendation = PrepareThenBid -> {"sign-with-caution", "clarify-then-sign"}
      [] recommendation = ClarifyFirst -> {"clarify-then-sign", "do-not-sign"}
      [] OTHER -> {}

\* C19: the recommendation of a report is the label of its score's band
C19_LabelFromScore ==
    riskPc = "assessed" =>
        DecisionLabel(report.overall_risk_score)
            \in ReadAs(report.decision_recommendation)

(***************************************************************************)
(* Reviews of one text on one coordinator, with the remote model calls of  *)
(* each agent counted (coordinator.py, document_agent.py, legal_agent.py,  *)
(* business_agent.py).  The stages are taken whole; the order of the       *)
(* stages and the merging of their results are the subject of SpecFlow.    *)
(***************************************************************************)
\* at most MaxRuns reviews of the text
MaxRuns == 2
\* the text matches at most MaxSections of the document agent's keyword sections
MaxSections == 1

\* @retry_on_error(max_retries=3, ...) on call_llm
CallRetries == 3
\* len(TENDER_CORE_FIELDS)
CoreFields == 14
\* more than 10 missing fields skip the supplement
SupplementLimit == 10

\* len(user_text) < min_text_length
IsShort(n) == n < min_text_length

\* the texts: a text shorter than a keyword section's chunk is one chunk and
\* matches one section at most
Texts ==
    {t \in [len : MsgLens, sections : 0..MaxSections] :
        IsShort(t.len) => t.sections <= 1}

\* the remote calls of a review, over its agents
Total(c) == c["document"] + c["legal"] + c["business"]

restRun == <<cacheVars, llmVars, concVars, flowVars, msgVars, reprLen, riskVars,
             compVars>>

InitRun == InitCache

\* ContractCoordinator.process_text_message is entered with the text t; the
\* second and later reviews are of the same text
ReviewStart(t) ==
    /\ runPc \in {"idle", "done"}
    /\ runNo < MaxRuns
    /\ runPc = "idle" <=> runNo = 0
    /\ runNo > 0 => t = runText
    /\ runPc' = "document"
    /\ runNo' = runNo + 1
    /\ runText' = t
    /\ runCalls' = [a \in RunAgents |-> 0]
    /\ prevCalls' = Total(runCalls)
    /\ prevReport' = runReport
    /\ warm' = (runNo > 0 /\ legalCache[runSummary] # Absent)
    /\ UNCHANGED <<runSummary, runReport, legalCache, restRun>>

\* run_document_agent_optimized: DocumentProcessingAgent.process_text_message
\* has no length test.  extract_key_information makes one remote call per
\* matched section through self.llm, outside call_llm and its cache; ext is
\* what the calls yielded ("none": they raised or gave nothing parsable), and
\* missing is the number of core fields still empty, which decides whether
\* _validate_and_supplement makes one more remote call
DocumentStage(ext, missing) ==
    /\ runPc = "document"
    /\ runText.sections = 0 => ext = "none"
    /\ (ext = "none") <=> (missing = CoreFields)
    /\ runCalls' = [runCalls EXCEPT !["document"] =
          runText.sections
            + (IF missing >= 1 /\ missing <= SupplementLimit THEN 1 ELSE 0)]
    /\ runSummary' = ext
    /\ runPc' = "analysis"
    /\ UNCHANGED <<runNo, runText, runReport, legalCache, warm, prevCalls,
                   prevReport, restRun>>

\* ContractReviewAgent.get_llm_contract_analysis returns a fixed text
BusinessResult(s) == <<"business analysis of", s>>

\* LegalAgent.process_text_message around call_llm: the answer, or the
\* status-error dict when call_llm raised
LegalResult(v) == <<"legal analysis", v>>
LegalError == <<"legal analysis", "status error">>

\* run_parallel_agents_optimized: both analyzers are invoked with the
\* context summary, whatever the length of the text.  The legal agent calls
\* call_llm: a truthy cached answer is returned at once; otherwise the remote
\* model is called up to CallRetries times, k is the number of calls made and
\* v the answer of the last one (Absent: it raised as well)
AnalysisStage(k, v) ==
    /\ runPc = "analysis"
    /\ LET cached == legalCache[runSummary]
           hit == cached # Absent /\ cached # ""
       IN  /\ hit => k = 0 /\ v = cached
           /\ ~hit => k >= 1
           /\ v = Absent => k = CallRetries
           /\ runCalls' = [runCalls EXCEPT !["legal"] = k]
           /\ legalCache' = IF hit \/ v = Absent THEN legalCache
                            ELSE [legalCache EXCEPT ![runSummary] = v]
           /\ runReport' =
                 [document_analysis |-> runSummary,
                  legal_analysis |-> IF v = Absent THEN LegalError
                                     ELSE LegalResult(v),
                  business_analysis |-> BusinessResult(runSummary)]
    /\ runPc' = "integrate"
    /\ UNCHANGED <<runNo, runText, runSummary, warm, prevCalls, prevReport,
                   restRun>>

\* run_integration_agent_optimized and the return of process_text_message:
\* the report is built from the three results without a remote call
IntegrateStage ==
    /\ runPc = "integrate"
    /\ runPc' = "done"
    /\ UNCHANGED <<runNo, runText, runCalls, runSummary, runReport, legalCache,
                   warm, prevCalls, prevReport, restRun>>

NextRun ==
    \/ \E t \in Texts : ReviewStart(t)
    \/ \E ext \in Extractions : \E missing \in {0, SupplementLimit, CoreFields} :
          DocumentStage(ext, missing)
    \/ \E k \in 0..CallRetries : \E v \in Responses \cup {Absent} :
          AnalysisStage(k, v)
    \/ IntegrateStage

SpecRun == InitRun /\ [][NextRun]_vars

(***************************************************************************)
(* C11: a review of a text shorter than min_text_length answers with the   *)
(* canned insufficient-input result and makes no remote call in any agent. *)
(***************************************************************************)
\* C11: short text, canned answer and zero remote calls
C11_ShortInputNoRemoteCall ==
    (runPc = "done" /\ IsShort(runText.len)) =>
        /\ runReport = TooShort
        /\ Total(runCalls) = 0

(***************************************************************************)
(* C14: a second review of the same text, with the cache warm, gives the   *)
(* same report and makes no more remote calls than the first.              *)
(***************************************************************************)
\* C14: same report, no more remote calls
C14_RepeatIsIdempotent ==
    (runPc = "done" /\ runNo >= 2 /\ warm) =>
        /\ runReport = prevReport
        /\ Total(runCalls) <= prevCalls

(***************************************************************************)
(* Further claims about the retry wrapper and call_llm, under SpecLLM.     *)
(***************************************************************************)
\* the waits after failed attempts 1..f, each of delay * k
SleepsUpTo(f) == (delay * f * (f + 1)) \div 2

C28_OneLookupPerCall ==
    [][pc = "attempt" /\ attempts' = attempts + 1 =>
          hits' + misses' =
              hits + misses + (IF use_cache /\ attempts = 0 THEN 1 ELSE 0)]_vars

(***************************************************************************)
(* A further claim about SimpleCache, under SpecCache.                     *)
(***************************************************************************)
\* C29: set(k, v) of a key the store already holds, on a store of max_size
\* entries, replaces k's value and expiry and removes no other entry: every
\* other key keeps its entry and the size stays max_size.
C29_OverwriteKeepsOthers ==
    [][(IsSetStep /\ HasKey(cache, lastOp'.key) /\ Len(cache) = max_size) =>
          /\ Len(cache') = max_size
          /\ HasKey(cache', lastOp'.key)
          /\ Lookup(cache', lastOp'.key) = Entry(lastOp'.key, lastOp'.val, now + ttl)
          /\ \A i \in 1..Len(cache) :
                cache[i].key # lastOp'.key =>
                    /\ HasKey(cache', cache[i].key)
                    /\ Lookup(cache', cache[i].key) = cache[i]]_vars

(***************************************************************************)
(* Further claims about the workflow, under SpecFlow.                      *)
(***************************************************************************)
\* the document stage ended in its except branch
DocFailed == docOutcome \in {"unavailable", "raise"}

\* C21: invoke of every analyzer adapter hands the text to
\* process_text_message and returns its result without raising: no adapter
\* that has been invoked rejects the call that invoke makes.
C21_InvokeNeverRaises == \A a \in invoked : AcceptsContext(a)

\* C22: whenever a stage's own work fails, the state the stage returns has a
\* non-empty error: the document stage (agent missing or raising), the
\* parallel stage (analyzers missing or a task raising), the integration
\* stage (agent missing or raising).
C22_FailureSetsError ==
    /\ (stage = "parallel" /\ DocFailed) => Truthy(state.error)
    /\ (stage = "integrate" /\ ~DocFailed
          /\ (\/ ~agents["legal"] \/ ~agents["business"]
              \/ \E a \in Analyzers : task[a] = "raised")) => Truthy(state.error)
    /\ (stage = "end"
          /\ (~agents["integration"] \/ "integration" \in invoked)
          /\ state.final_response.type = "json") => Truthy(state.error)

\* C23: if the document stage fails with any exception, it sets
\* document_result to an error record and context_summary to "", and the
\* parallel stage invokes neither analyzer and sets both results to the
\* skipped placeholder (stated for a coordinator that holds both analyzers).
C23_DocFailureSkipsAnalysis ==
    (DocFailed /\ agents["legal"] /\ agents["business"]) =>
        /\ state.document_result.status = "error"
        /\ state.context_summary = ""
        /\ invoked \cap Analyzers = {}
        /\ AfterParallel =>
              /\ GetField(state, "legal_result", NotRun) = Skipped
              /\ GetField(state, "business_result", NotRun) = Skipped

\* C25: the plan stage picks fast for a length below 1000, standard from 1000
\* and below 10000, chunked from 10000; the compression flag is set exactly
\* for chunked; the stage makes no remote call.
C25_Classified ==
    "workflow_plan" \in DOMAIN state =>
        /\ state.workflow_plan =
              (IF state.user_input < 1000 THEN "fast"
               ELSE IF state.user_input < 10000 THEN "standard" ELSE "chunked")
        /\ state.use_compression = (state.workflow_plan = "chunked")

C25_NoRemoteCall ==
    [][stage = "plan" => remoteCalls' = remoteCalls /\ hits' + misses' = hits + misses]_vars

C25_PlanStrategy == []C25_Classified /\ C25_NoRemoteCall

\* C25: the plan stage has classified an input of 10000 characters
C25_Witness ==
    /\ stage = "document"
    /\ state.user_input = 10000
    /\ state.workflow_plan = "chunked"
    /\ state.use_compression

\* C26: when the three analyzers succeed and the integration agent exists,
\* final_response is the integration agent's report, not the simplified one.
C26_AgentReportUsed ==
    (/\ stage = "end"
     /\ agents["integration"]
     /\ docOutcome = "success"
     /\ \A a \in Analyzers : task[a] = "ok" /\ taskValue[a].status = "success") =>
        /\ state.final_response.type # "json"
        /\ state.final_response = AgentDict("integration", "success")

MaxTextLen == 4
\* chunk_size ranges over 1..MaxChunk
MaxChunk == 2
\* important_sentences[:10]
MaxSentences == 10

\* the calls considered: text, processing_config.chunk_size and
\* processing_config.enable_text_compression
CompressInputs ==
    [text : UNION {[1..n -> {"x", "k", "."}] : n \in 0..MaxTextLen},
     chunk_size : 1..MaxChunk,
     enabled : BOOLEAN]

RECURSIVE Split(_)
\* middle_text.split('。')
Split(t) ==
    IF \A i \in 1..Len(t) : t[i] # "." THEN <<t>>
    ELSE LET i == CHOOSE j \in 1..Len(t) :
                      t[j] = "." /\ \A h \in 1..(j - 1) : t[h] # "."
         IN  <<SubSeq(t, 1, i - 1)>> \o Split(SubSeq(t, i + 1, Len(t)))

RECURSIVE Join(_)
\* '。'.join(chunks)
Join(chunks) ==
    IF Len(chunks) = 0 THEN <<>>
    ELSE IF Len(chunks) = 1 THEN chunks[1]
    ELSE chunks[1] \o <<".">> \o Join(Tail(chunks))

\* BaseAgent._compress_text
compress_text(in) ==
    LET text == in.text
        chunk_size == in.chunk_size
        middle_text == IF Len(text) > chunk_size * 2
                       THEN SubSeq(text, chunk_size + 1, Len(text) - chunk_size)
                       ELSE <<>>
        important == SelectSeq(Split(middle_text),
                               LAMBDA s : \E i \in 1..Len(s) : s[i] = "k")
        important_sentences ==
            IF middle_text = <<>> THEN <<>>
            ELSE SubSeq(important, 1, Min(Len(important), MaxSentences))
    IN  IF ~in.enabled \/ Len(text) <= chunk_size THEN text
        ELSE Join(<<SubSeq(text, 1, chunk_size)>>
                  \o important_sentences
                  \o <<SubSeq(text, Len(text) - chunk_size + 1, Len(text))>>)

\* one call of _compress_text
CompressText(in) ==
    /\ cmpIn' = in
    /\ cmpOut' = compress_text(in)
    /\ UNCHANGED <<cacheVars, llmVars, concVars, flowVars, msgVars, reprLen,
                   riskVars, runVars>>

NextCompress == \E in \in CompressInputs : CompressText(in)

SpecCompress == InitCache /\ [][NextCompress]_vars

\* C30: _compress_text never lengthens its input, and returns a text of at
\* most chunk_size characters unchanged.
C30_NeverLengthens ==
    /\ Len(cmpOut) <= Len(cmpIn.text)
    /\ Len(cmpIn.text) <= cmpIn.chunk_size => cmpOut = cmpIn.text

=============================================================================
